---- MODULE Spec2Model ----
(***************************************************************************)
(* Model of the webdav-handler adapters: the actix request/response        *)
(* adapters and request body (src/src/actix.rs), the warp reply filter     *)
(* (src/src/warp.rs) and the hyper sample server with its basic-auth gate  *)
(* (src/examples/sample-litmus-server.rs).                                 *)
(*                                                                         *)
(* Strings that the code slices (paths) are sequences of one-character     *)
(* strings.  Option<T> is a sequence of length 0 (None) or 1 (Some).       *)
(* Exactly one adapter is exercised per behaviour: Init hands a request    *)
(* (or a response, or a payload) to one of them and leaves the others      *)
(* idle.                                                                   *)
(***************************************************************************)
EXTENDS Integers, Sequences, FiniteSets, TLC

VARIABLES
    apc,        \* actix from_request: "idle" | "received" | "done"
    areq,       \* actix native request being extracted
    aout,       \* Result<DavRequest, Error> of from_request
    rpc,        \* actix respond_to: "idle" | "ready" | "done"
    rresp,      \* canonical response handed to respond_to
    rout,       \* native HttpResponse (or a panic) produced by respond_to
    bpc,        \* actix DavBody: "idle" | "open"
    payload,    \* items the wrapped dev::Payload has still to yield
    pullLog,    \* results of every poll_next made on the payload, in order
    observed,   \* results of every poll_frame, as the consumer saw them
    spc,        \* sample server, per request: "idle" | "new" | "awaiting" | "done"
    sreq,       \* sample server, per request: the hyper request
    sresp,      \* sample server, per request: the response returned by handle
    server,     \* the Server value: dh (the shared DavHandler) and auth
    calls,      \* calls made on the DavHandler, in order
    wpc,        \* warp dav_handler: "idle" | "received" | "awaiting" | "done"
    wreq,       \* warp: what the filters extracted from the native request
    whandler,   \* warp: the DavHandler passed to dav_handler (its config)
    wcall,      \* warp: the call made on the handler, if any yet
    wresp,      \* warp: the canonical response the handler returned, if any yet
    wout        \* warp: what the and_then closure resolved to

aVars == <<apc, areq, aout>>
rVars == <<rpc, rresp, rout>>
bVars == <<bpc, payload, pullLog, observed>>
sVars == <<spc, sreq, sresp, server, calls>>
wVars == <<wpc, wreq, whandler, wcall, wresp, wout>>

vars == <<aVars, rVars, bVars, sVars, wVars>>

----------------------------------------------------------------------------
(* Bounds of the model *)

MaxPathLen == 3
MaxItems == 3
MaxPolls == 4
NumRequests == 2

----------------------------------------------------------------------------
(* Option<T> *)

None == <<>>
Some(x) == <<x>>
IsSome(o) == Len(o) = 1
Unwrap(o) == o[1]

----------------------------------------------------------------------------
(* Paths *)

Chars == {"/", "a"}

RECURSIVE SeqsUpTo(_, _)
SeqsUpTo(S, n) ==
    IF n = 0 THEN {<<>>}
    ELSE LET shorter == SeqsUpTo(S, n - 1)
         IN  shorter \cup {Append(s, x) : s \in {t \in shorter : Len(t) = n - 1}, x \in S}

Paths == SeqsUpTo(Chars, MaxPathLen)

\* &s[..n]
SliceTo(s, n) == SubSeq(s, 1, n)
\* &s[n..]
SliceFrom(s, n) == SubSeq(s, n + 1, Len(s))

----------------------------------------------------------------------------
(* HTTP versions.  http::Version is an opaque struct around a private enum *)
(* that has, besides the five public constants, a hidden non-exhaustive    *)
(* variant; the code matches the five constants and a wildcard arm.        *)

Versions == {"HTTP_09", "HTTP_10", "HTTP_11", "HTTP_2", "HTTP_3"}
VersionOther == "NON_EXHAUSTIVE"
AllVersions == Versions \cup {VersionOther}

----------------------------------------------------------------------------
(* http::HeaderMap: entries in insertion order of their names, each with   *)
(* the values appended under that name.                                    *)

\* Header lists as they are appended to a map: none, one, a repeated name,
\* two names, and a repeated name around another one.
HeaderLists ==
    {<<>>,
     <<<<"etag", "1">>>>,
     <<<<"dav", "1">>, <<"dav", "2">>>>,
     <<<<"dav", "1">>, <<"etag", "1">>>>,
     <<<<"dav", "1">>, <<"etag", "1">>, <<"dav", "2">>>>}

HmNames(m) == {m[i].name : i \in 1..Len(m)}

\* HeaderMap::append / Builder::header
HmAppend(m, name, value) ==
    IF name \in HmNames(m)
    THEN [i \in 1..Len(m) |->
            IF m[i].name = name
            THEN [name |-> name, values |-> Append(m[i].values, value)]
            ELSE m[i]]
    ELSE Append(m, [name |-> name, values |-> <<value>>])

RECURSIVE HmFromList(_)
HmFromList(l) ==
    IF l = <<>> THEN <<>>
    ELSE LET n == Len(l)
         IN  HmAppend(HmFromList(SubSeq(l, 1, n - 1)), l[n][1], l[n][2])

\* HeaderMap::iter: every (name, value), grouped by name
RECURSIVE HmIter(_)
HmIter(m) ==
    IF m = <<>> THEN <<>>
    ELSE [i \in 1..Len(m[1].values) |-> <<m[1].name, m[1].values[i]>>]
         \o HmIter(Tail(m))

\* HeaderMap::into_iter: (Option<name>, value); the name is Some only for
\* the first value of each name and None for the further values of it.
RECURSIVE HmIntoIter(_)
HmIntoIter(m) ==
    IF m = <<>> THEN <<>>
    ELSE [i \in 1..Len(m[1].values) |->
            <<IF i = 1 THEN Some(m[1].name) ELSE None, m[1].values[i]>>]
         \o HmIntoIter(Tail(m))

HeaderMaps == {HmFromList(l) : l \in HeaderLists}

----------------------------------------------------------------------------
(* actix: DavRequest::from_request *)

ReqHeaderLists == {<<>>, <<<<"depth", "1">>>>, <<<<"if", "a">>, <<"depth", "0">>, <<"if", "b">>>>}

\* req.match_info().unprocessed() is req.match_info().path() from some
\* offset on, so the tail is a suffix of the path.
ActixRequests ==
    UNION {{[version |-> v, path |-> p, tail |-> SliceFrom(p, k), headers |-> h,
             payload |-> "payload"] :
                v \in AllVersions, k \in 0..Len(p), h \in ReqHeaderLists} : p \in Paths}

NoActixRequest ==
    [version |-> "HTTP_11", path |-> <<>>, tail |-> <<>>, headers |-> <<>>,
     payload |-> "none"]

\* match req.version() { ... }
ActixVersion(v) ==
    CASE v = "HTTP_09" -> Some("HTTP_09")
      [] v = "HTTP_10" -> Some("HTTP_10")
      [] v = "HTTP_11" -> Some("HTTP_11")
      [] v = "HTTP_2" -> Some("HTTP_2")
      [] v = "HTTP_3" -> Some("HTTP_3")
      [] OTHER -> None

\* Mutant of ActixPrefix: the "/" arm of the match is forgotten.
ActixPrefix_NoSlashArm(path, tail) ==
    LET x == SliceTo(path, Len(path) - Len(tail))
    IN  IF x = <<>> THEN None ELSE Some(x)

\* match &path[..path.len() - tail.len()] { "" | "/" => None, x => Some(x) }
ActixPrefix(path, tail) ==
    LET x == SliceTo(path, Len(path) - Len(tail))
    IN  IF x = <<>> \/ x = <<"/">> THEN None ELSE Some(x)

\* DavRequest::prefix
Prefix(davreq) == davreq.prefix

NoResult == [kind |-> "none"]

FromRequest ==
    /\ apc = "received"
    /\ apc' = "done"
    /\ LET hv == ActixVersion(areq.version)
       IN  IF ~IsSome(hv)
           THEN aout' = [kind |-> "err", error |-> "Unsupported"]
           ELSE aout' = [kind |-> "ok",
                         request |-> [version |-> Unwrap(hv),
                                      headers |-> HmFromList(areq.headers),
                                      body |-> [body |-> areq.payload]],
                         prefix |-> ActixPrefix(areq.path, areq.tail)]
    /\ UNCHANGED <<areq, rVars, bVars, sVars, wVars>>

----------------------------------------------------------------------------
(* Canonical responses: http::Response<crate::body::Body> *)

Statuses == {200, 204, 404}

Bodies ==
    {[type |-> "Empty"], [type |-> "Bytes", bytes |-> None],
     [type |-> "Bytes", bytes |-> Some(<<>>)], [type |-> "Bytes", bytes |-> Some(<<"x">>)],
     [type |-> "AsyncStream"]}

CanonResponses ==
    [status : Statuses, version : AllVersions, headers : HeaderMaps, body : Bodies]

NoResponse ==
    [status |-> 200, version |-> "HTTP_11", headers |-> <<>>, body |-> [type |-> "Empty"]]

----------------------------------------------------------------------------
(* actix: DavResponse::respond_to *)

\* for (name, value) in parts.headers.into_iter() {
\*     builder.append_header((name.unwrap().as_str(), value.as_ref())) }
\* The result is the builder's header map, or a panic of name.unwrap().
RECURSIVE AppendHeaders(_, _)
AppendHeaders(built, items) ==
    IF items = <<>> THEN [panic |-> FALSE, headers |-> built]
    ELSE IF ~IsSome(items[1][1]) THEN [panic |-> TRUE, headers |-> built]
    ELSE AppendHeaders(HmAppend(built, Unwrap(items[1][1]), items[1][2]), Tail(items))

\* match body.inner { ... }
ActixBody(body) ==
    CASE body.type = "Bytes" /\ ~IsSome(body.bytes) ->
            [ctor |-> "body", bytes |-> <<>>]
      [] body.type = "Bytes" /\ IsSome(body.bytes) ->
            [ctor |-> "body", bytes |-> Unwrap(body.bytes)]
      [] body.type = "Empty" ->
            [ctor |-> "body", bytes |-> <<>>]
      [] body.type = "AsyncStream" ->
            [ctor |-> "streaming", inner |-> body]

RespondTo ==
    /\ rpc = "ready"
    /\ rpc' = "done"
    /\ LET built == AppendHeaders(<<>>, HmIntoIter(rresp.headers))
       IN  IF built.panic
           THEN rout' = [kind |-> "panic"]
           ELSE rout' = [kind |-> "response",
                         status |-> rresp.status,
                         headers |-> built.headers,
                         body |-> ActixBody(rresp.body)]
    /\ UNCHANGED <<rresp, aVars, bVars, sVars, wVars>>

----------------------------------------------------------------------------
(* actix: DavBody, the request body wrapping dev::Payload *)

Chunks == {"c1", "c2"}

\* actix_web::error::PayloadError
PayloadErrors ==
    {[variant |-> "Incomplete", cause |-> Some("ConnectionReset")],
     [variant |-> "Incomplete", cause |-> None],
     [variant |-> "Io", cause |-> Some("TimedOut")],
     [variant |-> "Overflow", cause |-> None]}

PayloadItems ==
    {[ok |-> TRUE, data |-> c] : c \in Chunks}
        \cup {[ok |-> FALSE, err |-> e] : e \in PayloadErrors}

\* What a dev::Payload may have to yield.  The payload is any Stream of
\* Result<Bytes, PayloadError>: nothing in its type ends it at an Err.
Payloads == SeqsUpTo(PayloadItems, MaxItems)

\* match err { PayloadError::Incomplete(Some(err)) => err, ... }
MapPayloadError(err) ==
    CASE err.variant = "Incomplete" /\ IsSome(err.cause) -> [kind |-> Unwrap(err.cause)]
      [] err.variant = "Incomplete" /\ ~IsSome(err.cause) -> [kind |-> "BrokenPipe"]
      [] err.variant = "Io" -> [kind |-> Unwrap(err.cause)]
      [] OTHER -> [kind |-> "Other", message |-> err.variant]

\* The results this.body.poll_next(cx) can have now: Pending, or Ready with
\* the next item, or Ready(None) at the end.
PollNextResults ==
    {[poll |-> "Pending"]}
        \cup (IF payload = <<>>
              THEN {[poll |-> "Ready", item |-> None]}
              ELSE {[poll |-> "Ready", item |-> Some(Head(payload))]})

\* match this.body.poll_next(cx) { ... }
FrameOf(res) ==
    CASE res.poll = "Pending" -> [poll |-> "Pending"]
      [] res.poll = "Ready" /\ ~IsSome(res.item) -> [poll |-> "Ready", frame |-> None]
      [] res.poll = "Ready" /\ IsSome(res.item) /\ Unwrap(res.item).ok ->
            [poll |-> "Ready",
             frame |-> Some([ok |-> TRUE, data |-> Unwrap(res.item).data])]
      [] res.poll = "Ready" /\ IsSome(res.item) /\ ~Unwrap(res.item).ok ->
            [poll |-> "Ready",
             frame |-> Some([ok |-> FALSE, err |-> MapPayloadError(Unwrap(res.item).err)])]

PollFrame ==
    /\ bpc = "open"
    /\ Len(pullLog) < MaxPolls
    /\ \E res \in PollNextResults :
        /\ pullLog' = Append(pullLog, res)
        /\ payload' = IF res.poll = "Ready" /\ payload # <<>> THEN Tail(payload) ELSE payload
        /\ observed' = Append(observed, FrameOf(res))
    /\ UNCHANGED <<bpc, aVars, rVars, sVars, wVars>>

----------------------------------------------------------------------------
(* sample-litmus-server: Server::new, Server::handle *)

Requests == 1..NumRequests
Users == {"alice", "bob"}

\* The Authorization header of a request: absent, of another scheme, or Basic.
Authorizations ==
    {[scheme |-> "absent"], [scheme |-> "Bearer"]}
        \cup {[scheme |-> "Basic", username |-> u] : u \in Users}

\* req.headers().typed_get::<Authorization<Basic>>()
TypedGetBasic(req) ==
    IF req.authorization.scheme = "Basic"
    THEN Some(req.authorization.username)
    ELSE None

\* Server::new
ServerNew(directory, memls, fakels, auth) ==
    LET fs == IF directory # "" THEN "LocalFs" ELSE "MemFs"
        ls0 == IF fakels THEN Some("FakeLs") ELSE None
        ls == IF memls THEN Some("MemLs") ELSE ls0
    IN  [dh |-> [fs |-> fs, ls |-> ls, principal |-> None, prefix |-> None],
         auth |-> auth]

Unauthorized ==
    [status |-> 401,
     headers |-> HmFromList(<<<<"WWW-Authenticate", "Basic realm=\"foo\"">>>>),
     body |-> [type |-> "Bytes", bytes |-> Some("please auth")]]

\* Mutant of ServerHandle: the 401 reply is built but not returned, and the
\* request falls through to the handler.
ServerHandle_FallThrough(r) ==
    /\ spc[r] = "new"
    /\ LET cred == TypedGetBasic(sreq[r])
           user == IF server.auth THEN cred ELSE None
       IN  /\ calls' = Append(calls,
                    IF IsSome(user)
                    THEN [fn |-> "handle_with",
                          config |-> Some([principal |-> Some(Unwrap(user))]),
                          req |-> sreq[r]]
                    ELSE [fn |-> "handle", config |-> None, req |-> sreq[r]])
           /\ spc' = [spc EXCEPT ![r] = "awaiting"]
           /\ sresp' = sresp
    /\ UNCHANGED <<sreq, server, aVars, rVars, bVars, wVars>>

\* Mutant of ServerHandle: the principal is stored in the shared handler
\* instead of being passed as the call's own configuration.
ServerHandle_SharedPrincipal(r) ==
    /\ spc[r] = "new"
    /\ LET cred == TypedGetBasic(sreq[r])
           user == IF server.auth THEN cred ELSE None
       IN  IF server.auth /\ ~IsSome(cred)
           THEN /\ sresp' = [sresp EXCEPT ![r] = Some(Unauthorized)]
                /\ spc' = [spc EXCEPT ![r] = "done"]
                /\ calls' = calls
                /\ server' = server
           ELSE /\ calls' = Append(calls, [fn |-> "handle", config |-> None, req |-> sreq[r]])
                /\ server' = IF IsSome(user)
                             THEN [server EXCEPT !.dh.principal = user]
                             ELSE server
                /\ spc' = [spc EXCEPT ![r] = "awaiting"]
                /\ sresp' = sresp
    /\ UNCHANGED <<sreq, aVars, rVars, bVars, wVars>>

\* Server::handle up to its await on the handler
ServerHandle(r) ==
    /\ spc[r] = "new"
    /\ LET cred == TypedGetBasic(sreq[r])
           user == IF server.auth THEN cred ELSE None
       IN  IF server.auth /\ ~IsSome(cred)
           THEN /\ sresp' = [sresp EXCEPT ![r] = Some(Unauthorized)]
                /\ spc' = [spc EXCEPT ![r] = "done"]
                /\ calls' = calls
           ELSE /\ calls' = Append(calls,
                        IF IsSome(user)
                        THEN [fn |-> "handle_with",
                              config |-> Some([principal |-> Some(Unwrap(user))]),
                              req |-> sreq[r]]
                        ELSE [fn |-> "handle", config |-> None, req |-> sreq[r]])
                /\ spc' = [spc EXCEPT ![r] = "awaiting"]
                /\ sresp' = sresp
    /\ UNCHANGED <<sreq, server, aVars, rVars, bVars, wVars>>

HandlerResponses ==
    {[status |-> st, headers |-> <<>>, body |-> [type |-> "Empty"]] : st \in {200, 404}}

\* Ok(self.dh.handle_with(config, req).await) / Ok(self.dh.handle(req).await)
ServerHandlerReturn(r) ==
    /\ spc[r] = "awaiting"
    /\ \E resp \in HandlerResponses : sresp' = [sresp EXCEPT ![r] = Some(resp)]
    /\ spc' = [spc EXCEPT ![r] = "done"]
    /\ UNCHANGED <<sreq, server, calls, aVars, rVars, bVars, wVars>>

NoServer == ServerNew("", FALSE, FALSE, FALSE)

----------------------------------------------------------------------------
(* warp: dav_handler *)

\* warp::path::full() always starts with "/".  warp::path::tail() is the
\* part no earlier filter matched: the whole path after its leading "/",
\* or what follows the "/" after a matched segment, or nothing when every
\* segment was matched.
WarpSplits(p) ==
    {k \in 1..Len(p) :
        \/ k = 1
        \/ k > 1 /\ p[k] = "/" /\ p[k - 1] # "/"
        \/ k = Len(p) /\ p[k] # "/"}

WarpRequests ==
    UNION {{[method |-> "PROPFIND", version |-> v, path_full |-> p,
             path_tail |-> SliceFrom(p, k), headers |-> h, body |-> "stream"] :
                v \in Versions, k \in WarpSplits(p),
                h \in {<<>>, <<<<"if", "a">>, <<"depth", "0">>, <<"if", "b">>>>}} :
           p \in {q \in Paths : Len(q) >= 1 /\ q[1] = "/"}}

NoWarpRequest ==
    [method |-> "GET", version |-> "HTTP_11", path_full |-> <<>>, path_tail |-> <<>>,
     headers |-> <<>>, body |-> "none"]

\* handler.config.prefix of the DavHandler passed in
ConfiguredPrefixes == {None, Some(<<"/", "d", "a", "v">>)}

\* http::Request::builder().method(..).uri(uri) with every header, and the body
WarpBuildRequest(req) ==
    [method |-> req.method, uri |-> req.path_full, version |-> "HTTP_11",
     headers |-> HmFromList(req.headers), body |-> req.body]

\* path_str[..path_len - tail_len].to_string()
WarpPrefix(path_str, path_tail) == SliceTo(path_str, Len(path_str) - Len(path_tail))

\* Mutant of WarpCall: the computed prefix is passed whatever the handler
\* was configured with.
WarpCall_AlwaysComputed(handler, req) ==
    [fn |-> "handle_stream_with",
     config |-> Some([prefix |-> Some(WarpPrefix(req.path_full, req.path_tail))]),
     request |-> WarpBuildRequest(req)]

\* let response = if handler.config.prefix.is_some() { ... } else { ... }
WarpCall(handler, req) ==
    IF IsSome(handler.config.prefix)
    THEN [fn |-> "handle_stream", config |-> None, request |-> WarpBuildRequest(req)]
    ELSE [fn |-> "handle_stream_with",
          config |-> Some([prefix |-> Some(WarpPrefix(req.path_full, req.path_tail))]),
          request |-> WarpBuildRequest(req)]

\* the closure of and_then, up to its await on the handler
WarpHandle ==
    /\ wpc = "received"
    /\ wcall' = Some(WarpCall(whandler, wreq))
    /\ wpc' = "awaiting"
    /\ UNCHANGED <<wreq, whandler, wresp, wout, aVars, rVars, bVars, sVars>>

\* Mutant of WarpVersion: the HTTP/3 arm is missing.
WarpVersion_NoHttp3(v) ==
    CASE v = "HTTP_09" -> Some("HTTP_09")
      [] v = "HTTP_10" -> Some("HTTP_10")
      [] v = "HTTP_11" -> Some("HTTP_11")
      [] v = "HTTP_2" -> Some("HTTP_2")
      [] OTHER -> None

\* match parts.version { ... }
WarpVersion(v) ==
    CASE v = "HTTP_09" -> Some("HTTP_09")
      [] v = "HTTP_10" -> Some("HTTP_10")
      [] v = "HTTP_11" -> Some("HTTP_11")
      [] v = "HTTP_2" -> Some("HTTP_2")
      [] v = "HTTP_3" -> Some("HTTP_3")
      [] OTHER -> None

\* let response = match http_version { ... }; a builder starts with no
\* header and version HTTP/1.1.
WarpResponse(parts, body) ==
    LET http_version == WarpVersion(parts.version)
    IN  IF IsSome(http_version)
        THEN [status |-> parts.status, version |-> Unwrap(http_version),
              headers |-> <<>>, body |-> [ctor |-> "wrap_stream", inner |-> body]]
        ELSE [status |-> 500, version |-> "HTTP_11",
              headers |-> <<>>, body |-> [ctor |-> "empty"]]

\* the closure of and_then, from the handler's response on
WarpReply ==
    /\ wpc = "awaiting"
    /\ \E response \in CanonResponses :
        /\ wresp' = Some(response)
        /\ wout' = [kind |-> "Ok",
                    reply |-> WarpResponse([status |-> response.status,
                                            version |-> response.version,
                                            headers |-> response.headers],
                                           response.body)]
    /\ wpc' = "done"
    /\ UNCHANGED <<wreq, whandler, wcall, aVars, rVars, bVars, sVars>>

----------------------------------------------------------------------------

IdleActixRequest == apc = "idle" /\ areq = NoActixRequest /\ aout = NoResult
IdleActixResponse == rpc = "idle" /\ rresp = NoResponse /\ rout = NoResult
IdleBody == bpc = "idle" /\ payload = <<>> /\ pullLog = <<>> /\ observed = <<>>
IdleServer ==
    /\ spc = [r \in Requests |-> "idle"]
    /\ sreq = [r \in Requests |-> [id |-> r, authorization |-> [scheme |-> "absent"]]]
    /\ sresp = [r \in Requests |-> None]
    /\ server = NoServer
    /\ calls = <<>>
IdleWarp ==
    /\ wpc = "idle" /\ wreq = NoWarpRequest /\ whandler = [config |-> [prefix |-> None]]
    /\ wcall = None /\ wresp = None /\ wout = NoResult

InitActixRequest ==
    /\ apc = "received" /\ areq \in ActixRequests /\ aout = NoResult
    /\ IdleActixResponse /\ IdleBody /\ IdleServer /\ IdleWarp

InitActixResponse ==
    /\ rpc = "ready" /\ rresp \in CanonResponses /\ rout = NoResult
    /\ IdleActixRequest /\ IdleBody /\ IdleServer /\ IdleWarp

InitBody ==
    /\ bpc = "open" /\ payload \in Payloads /\ pullLog = <<>> /\ observed = <<>>
    /\ IdleActixRequest /\ IdleActixResponse /\ IdleServer /\ IdleWarp

\* main: the Server is built once and cloned into every connection's service
InitServer ==
    /\ \E directory \in {"", "/srv"}, memls \in BOOLEAN, fakels \in BOOLEAN, auth \in BOOLEAN :
            server = ServerNew(directory, memls, fakels, auth)
    /\ spc = [r \in Requests |-> "new"]
    /\ sreq \in {f \in [Requests -> [id : Requests, authorization : Authorizations]] :
                    \A r \in Requests : f[r].id = r}
    /\ sresp = [r \in Requests |-> None]
    /\ calls = <<>>
    /\ IdleActixRequest /\ IdleActixResponse /\ IdleBody /\ IdleWarp

InitWarp ==
    /\ wpc = "received" /\ wreq \in WarpRequests
    /\ \E prefix \in ConfiguredPrefixes : whandler = [config |-> [prefix |-> prefix]]
    /\ wcall = None /\ wresp = None /\ wout = NoResult
    /\ IdleActixRequest /\ IdleActixResponse /\ IdleBody /\ IdleServer

Init == InitActixRequest \/ InitActixResponse \/ InitBody \/ InitServer \/ InitWarp

Next ==
    \/ FromRequest
    \/ RespondTo
    \/ PollFrame
    \/ \E r \in Requests : ServerHandle(r)
    \/ \E r \in Requests : ServerHandlerReturn(r)
    \/ WarpHandle
    \/ WarpReply

Spec == Init /\ [][Next]_vars

----------------------------------------------------------------------------
(* Properties *)

\* "no prefix" adds nothing in front of the tail
PrefixStr(o) == IF IsSome(o) THEN Unwrap(o) ELSE <<>>

ActixOk == apc = "done" /\ aout.kind = "ok"
WarpCalled == wpc \in {"awaiting", "done"}

C2_StatusAndHeadersCopied ==
    /\ rpc = "done" =>
          /\ rout.kind = "response"
          /\ rout.status = rresp.status
          /\ HmIter(rout.headers) = HmIter(rresp.headers)
    /\ wpc = "done" =>
          /\ wout.kind = "Ok"
          /\ wout.reply.status = Unwrap(wresp).status
          /\ HmIter(wout.reply.headers) = HmIter(Unwrap(wresp).headers)

\* C3: a canonical response with status 204 and a Stream body is rendered by
\* respond_to through the buffered constructor with an empty body, never
\* through the streaming constructor.
C3_NoContentBuffered ==
    (rpc = "done" /\ rout.kind = "response"
        /\ rresp.status = 204 /\ rresp.body.type = "AsyncStream") =>
            rout.body = [ctor |-> "body", bytes |-> <<>>]

IsErrFrame(f) == f.poll = "Ready" /\ IsSome(f.frame) /\ ~Unwrap(f.frame).ok

\* C4: the consumer of a DavBody sees what the payload yielded, in order,
\* nothing lost and nothing twice, and once poll_frame has yielded an error
\* the payload is not pulled again and the body yields nothing further.
C4_ErrorTerminates ==
    /\ Len(observed) = Len(pullLog)
    /\ \A i \in 1..Len(observed) :
          /\ observed[i] = FrameOf(pullLog[i])
          /\ IsErrFrame(observed[i]) => i = Len(pullLog)

CallsFor(r) == {i \in 1..Len(calls) : calls[i].req.id = r}

\* C5: with authentication enabled, a request without a recognized
\* credential gets status 401 with a WWW-Authenticate header and a Bytes
\* body, and the handler is never called for it (neither handle nor
\* handle_with).
C5_UnauthorizedWithoutHandler ==
    \A r \in Requests :
        (server.auth /\ ~IsSome(TypedGetBasic(sreq[r]))) =>
            /\ CallsFor(r) = {}
            /\ spc[r] \in {"new", "done"}
            /\ spc[r] = "done" =>
                  /\ IsSome(sresp[r])
                  /\ Unwrap(sresp[r]).status = 401
                  /\ "WWW-Authenticate" \in HmNames(Unwrap(sresp[r]).headers)
                  /\ Unwrap(sresp[r]).body.type = "Bytes"
                  /\ IsSome(Unwrap(sresp[r]).body.bytes)

C5_Witness ==
    \E r, q \in Requests :
        /\ server.auth
        /\ ~IsSome(TypedGetBasic(sreq[r]))
        /\ spc[r] = "done"
        /\ spc[q] = "done"
        /\ CallsFor(q) # {}

\* C6: with authentication enabled, a request with a credential of principal
\* p makes exactly one call on the handler, handle_with, with principal p as
\* the call's own configuration and the request as received, whatever other
\* requests are in flight; the shared handler is never changed.
C6_PrincipalPerCall ==
    /\ [](\A r \in Requests :
            (server.auth /\ IsSome(TypedGetBasic(sreq[r]))
                /\ spc[r] \in {"awaiting", "done"}) =>
                /\ Cardinality(CallsFor(r)) = 1
                /\ \A i \in CallsFor(r) :
                      /\ calls[i].fn = "handle_with"
                      /\ calls[i].config =
                            Some([principal |-> Some(sreq[r].authorization.username)])
                      /\ calls[i].req = sreq[r])
    /\ [](server.dh.principal = None)
    /\ [][server' = server /\ sreq' = sreq]_vars

C6_Witness ==
    \E r, q \in Requests :
        /\ server.auth
        /\ IsSome(TypedGetBasic(sreq[r])) /\ IsSome(TypedGetBasic(sreq[q]))
        /\ TypedGetBasic(sreq[r]) # TypedGetBasic(sreq[q])
        /\ spc[r] = "awaiting" /\ spc[q] = "awaiting"
        /\ Len(calls) = 2

\* C7: for every supported version v, each request adapter (actix
\* from_request, warp dav_handler) turns a native request of version v into
\* a canonical request of version v, which the response adapter's mapping
\* takes back to v.
C7_VersionRoundTrip ==
    /\ (apc = "done" /\ areq.version \in Versions) =>
          /\ aout.kind = "ok"
          /\ aout.request.version = areq.version
          /\ WarpVersion(aout.request.version) = Some(areq.version)
    /\ WarpCalled =>
          /\ Unwrap(wcall).request.version = wreq.version
          /\ WarpVersion(Unwrap(wcall).request.version) = Some(wreq.version)

\* C8: a handler configured with a prefix is called without any per-request
\* configuration, so with its own prefix alone; a handler without one is
\* called with the computed prefix, and that prefix + tail == full path.
C8_ConfiguredPrefixWins ==
    WarpCalled =>
        IF IsSome(whandler.config.prefix)
        THEN /\ Unwrap(wcall).fn = "handle_stream"
             /\ Unwrap(wcall).config = None
        ELSE /\ Unwrap(wcall).fn = "handle_stream_with"
             /\ IsSome(Unwrap(wcall).config)
             /\ IsSome(Unwrap(Unwrap(wcall).config).prefix)
             /\ Unwrap(Unwrap(Unwrap(wcall).config).prefix) \o wreq.path_tail
                    = wreq.path_full

C8_Witness ==
    /\ wpc = "awaiting"
    /\ IsSome(whandler.config.prefix)
    /\ Unwrap(wcall).config = None
    /\ Len(WarpPrefix(wreq.path_full, wreq.path_tail)) > 1
    /\ WarpPrefix(wreq.path_full, wreq.path_tail) # Unwrap(whandler.config.prefix)

\* C9: the filter resolves once, to a reply and never to a rejection; the
\* reply has the status and the body of the handler's response unless that
\* response's version has no native counterpart, and then, and only then,
\* it is a 500 with an empty body.
C9_ReplyOrInternalError ==
    /\ wpc # "done" => wout = NoResult
    /\ wpc = "done" =>
          /\ wout.kind = "Ok"
          /\ IF Unwrap(wresp).version \in Versions
             THEN /\ wout.reply.status = Unwrap(wresp).status
                  /\ wout.reply.version = Unwrap(wresp).version
                  /\ wout.reply.body = [ctor |-> "wrap_stream", inner |-> Unwrap(wresp).body]
             ELSE /\ wout.reply.status = 500
                  /\ wout.reply.body = [ctor |-> "empty"]

C9_Witness ==
    /\ wpc = "done"
    /\ Unwrap(wresp).version = VersionOther
    /\ Unwrap(wresp).status = 204
    /\ wout.reply.status = 500
    /\ wout.reply.body.ctor = "empty"

\* C10: no request adapter hands over an empty or a sole "/" computed
\* prefix as an explicit prefix: actix prefix() is None for it, and warp
\* without a configured prefix does not call the handler with it.
C10_RootPrefixIsNoPrefix ==
    /\ ActixOk => Prefix(aout) \notin {Some(<<>>), Some(<<"/">>)}
    /\ (WarpCalled /\ ~IsSome(whandler.config.prefix)) =>
          Unwrap(wcall).config \notin
              {Some([prefix |-> Some(<<>>)]), Some([prefix |-> Some(<<"/">>)])}

\* a body known to hold exactly zero bytes: Empty, Bytes(None), Bytes(empty)
IsZeroBytes(body) ==
    \/ body.type = "Empty"
    \/ body.type = "Bytes" /\ (~IsSome(body.bytes) \/ Unwrap(body.bytes) = <<>>)

\* C11: in every response adapter (actix respond_to, warp dav_handler) an
\* Empty or Bytes body goes through the buffered constructor and only a
\* Stream body through the streaming one; every zero-byte body (Empty,
\* Bytes(None), Bytes(empty)) gives the same buffered empty native body, so
\* the streaming constructor is never called for it.
C11_BufferedUnlessStream ==
    /\ (rpc = "done" /\ rout.kind = "response") =>
          /\ rresp.body.type \in {"Empty", "Bytes"} => rout.body.ctor = "body"
          /\ rout.body.ctor = "streaming" => rresp.body.type = "AsyncStream"
          /\ IsZeroBytes(rresp.body) => rout.body = [ctor |-> "body", bytes |-> <<>>]
    /\ (wpc = "done" /\ Unwrap(wresp).version \in Versions) =>
          /\ Unwrap(wresp).body.type \in {"Empty", "Bytes"} =>
                wout.reply.body.ctor # "wrap_stream"
          /\ wout.reply.body.ctor = "wrap_stream" =>
                Unwrap(wresp).body.type = "AsyncStream"
          /\ IsZeroBytes(Unwrap(wresp).body) => wout.reply.body = [ctor |-> "empty"]

====
